---- MODULE Spec2Model ----
(***************************************************************************)
(* Model of go-anyway/framework-db: the GORM trace plugin                  *)
(* (GormTracePlugin), the Redis trace hook (traceRedisHook), the statement *)
(* renderer (getFullSQL) and the operation classifier (getOperationType).  *)
(*                                                                         *)
(* Text is modelled as a sequence of one-character strings, so that        *)
(* scanning, trimming, upper-casing and substitution are computed the way  *)
(* the Go code computes them.                                              *)
(***************************************************************************)
EXTENDS Integers, Sequences, FiniteSets, TLC

VARIABLES
    db,          \* the *gorm.DB handle: open?, options flag, plugin, callbacks
    rdb,         \* the *redis.Client: open?, options flag, hook
    metricsOn,   \* metrics.IsEnabled()
    now,         \* the wall clock read by time.Now()
    op,          \* the operations in flight, one record per operation
    settings,    \* db.Statement.Settings: instance key -> {_start_time, _span}
    spans,       \* the spans handed out by pkgtrace.StartSpan, by span id
    logs,        \* log records emitted, per emitting operation
    metricObs,   \* counter increments / histogram observations, per operation
    render,      \* an isolated call of getFullSQL: input, output
    classify,    \* an isolated call of getOperationType: input, output
    convert      \* an isolated config: Validate's and ToOptions' results

vars == <<db, rdb, metricsOn, now, op, settings, spans, logs, metricObs,
          render, classify, convert>>

tracerVars == <<db, rdb, metricsOn, now, op, settings, spans, logs, metricObs>>

(***************************************************************************)
(* Bounds of the model.                                                    *)
(***************************************************************************)
MaxOps == 2          \* operations issued in one behaviour
MaxTime == 1         \* ticks of the wall clock
MaxTemplateLen == 3  \* characters of a statement template given to getFullSQL
MaxParams == 2       \* bound parameters given to getFullSQL
MaxReplays == 1      \* times after is fired again on a finished instance

\* nil for the values that are names (errors, labels); an optional value of any
\* other kind is None or Some(x)
Nil == "nil"
None == <<>>
Some(x) == <<x>>

(***************************************************************************)
(* Text helpers: strings.Index, strings.TrimSpace, strings.ToUpper,        *)
(* strings.HasPrefix, strings.ReplaceAll on one-character patterns.        *)
(***************************************************************************)
Lower == <<"a","b","c","d","e","f","g","h","i","j","k","l","m",
           "n","o","p","q","r","s","t","u","v","w","x","y","z">>
Upper == <<"A","B","C","D","E","F","G","H","I","J","K","L","M",
           "N","O","P","Q","R","S","T","U","V","W","X","Y","Z">>

WhiteSpace == {" ", "\t", "\n", "\r"}

ToUpperChar(c) ==
    IF \E i \in 1..Len(Lower) : Lower[i] = c
    THEN Upper[CHOOSE i \in 1..Len(Lower) : Lower[i] = c]
    ELSE c

ToUpper(s) == [i \in 1..Len(s) |-> ToUpperChar(s[i])]

TrimSpace(s) ==
    LET keep == {i \in 1..Len(s) : s[i] \notin WhiteSpace}
    IN  IF keep = {} THEN <<>>
        ELSE LET lo == CHOOSE i \in keep : \A j \in keep : i <= j
                 hi == CHOOSE i \in keep : \A j \in keep : i >= j
             IN  SubSeq(s, lo, hi)

HasPrefix(s, p) == Len(s) >= Len(p) /\ SubSeq(s, 1, Len(p)) = p

\* strings.Index(s, c) for a one-character c: the first position (1-based), 0 for Go's -1
Index(s, c) ==
    IF \E i \in 1..Len(s) : s[i] = c
    THEN CHOOSE i \in 1..Len(s) : s[i] = c /\ \A j \in 1..(i-1) : s[j] # c
    ELSE 0

\* strings.ReplaceAll(s, c, with) for a one-character c
ReplaceNone(s, c, with) == s

RECURSIVE ReplaceAll(_, _, _)
ReplaceAll(s, c, with) ==
    IF s = <<>> THEN <<>>
    ELSE (IF Head(s) = c THEN with ELSE <<Head(s)>>) \o ReplaceAll(Tail(s), c, with)

Digits == <<"0","1","2","3","4","5","6","7","8","9">>

RECURSIVE Itoa(_)
Itoa(n) ==
    IF n < 0 THEN <<"-">> \o Itoa(-n)
    ELSE IF n < 10 THEN <<Digits[n + 1]>>
    ELSE Itoa(n \div 10) \o <<Digits[(n % 10) + 1]>>

\* a field of time.Format's layout: the number zero-padded to w digits
RECURSIVE Pad(_, _)
Pad(n, w) == IF w <= 0 THEN <<>> ELSE Pad(n \div 10, w - 1) \o <<Digits[(n % 10) + 1]>>

(***************************************************************************)
(* Bound parameter values (db.Statement.Vars): string, []byte, time.Time,  *)
(* nil, and the numeric kinds that reach the default branch.               *)
(***************************************************************************)
StrVal(s)   == [kind |-> "string", v |-> s]
BytesVal(s) == [kind |-> "bytes", v |-> s]
IntVal(n)   == [kind |-> "int", v |-> n]
\* a float64 with one decimal digit: whole + tenths/10
FloatVal(whole, tenths) == [kind |-> "float", v |-> <<whole, tenths>>]
TimeVal(Y, M, D, h, m, s, ns) ==
    [kind |-> "time", v |-> <<Y, M, D, h, m, s, ns>>]
NilVal == [kind |-> "nil", v |-> <<>>]

\* fmt.Sprintf("%v", v) for the numeric kinds
DefaultString(p) ==
    IF p.kind = "int" THEN Itoa(p.v)
    ELSE IF p.kind = "float"
         THEN IF p.v[2] = 0 THEN Itoa(p.v[1])
              ELSE Itoa(p.v[1]) \o <<".">> \o Itoa(p.v[2])
    ELSE p.v

\* v.Format("2006-01-02 15:04:05"): sub-second part dropped
FormatTime(t) ==
    Pad(t[1], 4) \o <<"-">> \o Pad(t[2], 2) \o <<"-">> \o Pad(t[3], 2) \o <<" ">>
    \o Pad(t[4], 2) \o <<":">> \o Pad(t[5], 2) \o <<":">> \o Pad(t[6], 2)

Quote(s) == <<"'">> \o s \o <<"'">>

\* the type switch of getFullSQL
formatParam(p) ==
    CASE p.kind = "string" -> Quote(ReplaceAll(p.v, "'", <<"'", "'">>))
      [] p.kind = "bytes"  -> Quote(ReplaceAll(p.v, "'", <<"'", "'">>))
      [] p.kind = "time"   -> Quote(FormatTime(p.v))
      [] p.kind = "nil"    -> <<"N","U","L","L">>
      [] OTHER             -> DefaultString(p)

(***************************************************************************)
(* gorm.Statement as the tracer reads it.                                  *)
(***************************************************************************)
Statement(sql, vs, hasModel, hasTable, ctx) ==
    [isNil |-> FALSE, SQL |-> sql, Vars |-> vs, Model |-> hasModel,
     Table |-> hasTable, Context |-> ctx]

\* a context.Context: what it was derived from, and the spans started under it
Context(base) == [base |-> base, spans |-> <<>>]
NilContext == Context("nil")
Background == Context("background")

\* db.Statement == nil
NilStatement ==
    [isNil |-> TRUE, SQL |-> <<>>, Vars |-> <<>>, Model |-> FALSE,
     Table |-> FALSE, Context |-> NilContext]

\* the substitution loop of getFullSQL; paramIndex is 1-based here
RECURSIVE substitute(_, _, _)
substitute(result, Vars, paramIndex) ==
    IF paramIndex > Len(Vars) THEN result
    ELSE LET pos == Index(result, "?")
         IN  IF pos = 0 THEN result
             ELSE substitute(SubSeq(result, 1, pos - 1)
                                \o formatParam(Vars[paramIndex])
                                \o SubSeq(result, pos + 1, Len(result)),
                             Vars, paramIndex + 1)

getFullSQL(stmt) ==
    IF stmt.isNil THEN <<>>
    ELSE IF stmt.SQL = <<>> THEN <<>>
    ELSE IF Len(stmt.Vars) = 0 THEN stmt.SQL
    ELSE substitute(stmt.SQL, stmt.Vars, 1)

S_SELECT == <<"S","E","L","E","C","T">>
S_INSERT == <<"I","N","S","E","R","T">>
S_UPDATE == <<"U","P","D","A","T","E">>
S_DELETE == <<"D","E","L","E","T","E">>

\* the label returned when neither the text nor a bound model/table decides
fallbackLabelUnknown == "unknown"

fallbackLabel == "other"

\* the branch taken when the text did not decide
structuralLabel(stmt) ==
    IF stmt.Model \/ stmt.Table THEN "query" ELSE fallbackLabel

getOperationType(stmt) ==
    IF stmt.isNil THEN "unknown"
    ELSE LET sqlUpper == ToUpper(TrimSpace(stmt.SQL))
         IN  IF Len(stmt.SQL) > 0 /\ Len(sqlUpper) >= 6
                /\ HasPrefix(sqlUpper, S_SELECT) THEN "select"
             ELSE IF Len(stmt.SQL) > 0 /\ Len(sqlUpper) >= 6
                /\ HasPrefix(sqlUpper, S_INSERT) THEN "insert"
             ELSE IF Len(stmt.SQL) > 0 /\ Len(sqlUpper) >= 6
                /\ HasPrefix(sqlUpper, S_UPDATE) THEN "update"
             ELSE IF Len(stmt.SQL) > 0 /\ Len(sqlUpper) >= 6
                /\ HasPrefix(sqlUpper, S_DELETE) THEN "delete"
             ELSE structuralLabel(stmt)

(***************************************************************************)
(* The telemetry sink: spans (pkgtrace.StartSpan and trace.Span), log      *)
(* records and metric observations.  A span that has ended no longer       *)
(* records: attributes, status and errors set on it afterwards are lost.   *)
(***************************************************************************)
NoSpan ==
    [starts |-> 0, ends |-> 0, name |-> Nil, system |-> Nil, operation |-> Nil,
     statement |-> None, durationMs |-> None, commandCount |-> None,
     status |-> "Unset", message |-> <<>>, recorded |-> Nil, parent |-> None]

\* the span pkgtrace.StartSpan(ctx, name, WithAttributes(system, operation, count)) creates
StartSpan(ctx, name, system, operation, count) ==
    [NoSpan EXCEPT !.starts = 1, !.name = name, !.system = system,
                   !.operation = operation, !.commandCount = count,
                   !.parent = Some(ctx)]

\* the context StartSpan returns: the given one, now carrying span id
SpanContextUnchanged(ctx, id) == ctx

SpanContext(ctx, id) == [ctx EXCEPT !.spans = Append(@, id)]

Recording(sp) == sp.starts > 0 /\ sp.ends = 0

SetStatementAttr(sp, statement) ==
    IF Recording(sp) THEN [sp EXCEPT !.statement = Some(statement)] ELSE sp

SetOperationAttr(sp, operation) ==
    IF Recording(sp) THEN [sp EXCEPT !.operation = operation] ELSE sp

SetDurationAttr(sp, ms) ==
    IF Recording(sp) THEN [sp EXCEPT !.durationMs = Some(ms)] ELSE sp

SetStatus(sp, code, msg) ==
    IF Recording(sp) THEN [sp EXCEPT !.status = code, !.message = msg] ELSE sp

RecordError(sp, e) ==
    IF Recording(sp) THEN [sp EXCEPT !.recorded = e] ELSE sp

\* span.End()
EndNever(sp) == sp

End(sp) == [sp EXCEPT !.ends = @ + 1]

\* a time.Duration of d clock ticks (seconds) in the units the code converts to
Milliseconds(d) == d * 1000
Microseconds(d) == d * 1000000
Seconds(d) == d

\* status := "success"; if err != nil { status = "error" }
statusAlwaysSuccess(err) == "success"

statusOf(err) == IF err # Nil THEN "error" ELSE "success"

\* err.Error(): the message text of an error value
ErrorText(err) == <<"message of", err>>

\* the status block shared by both tracers: Error + RecordError, or Ok
finishStatus(sp, err) ==
    IF err # Nil
    THEN RecordError(SetStatus(sp, "Error", ErrorText(err)), err)
    ELSE SetStatus(sp, "Ok", <<>>)

(***************************************************************************)
(* GormTracePlugin.Initialize: twelve registrations, each of which may     *)
(* return an error that the code discards.                                 *)
(***************************************************************************)
Verbs == {"create", "query", "delete", "update", "row", "raw"}
Phases == {"before", "after"}
Registrations == Verbs \X Phases

NewGormTracePlugin(enableTrace) == Some([enableTrace |-> enableTrace])

\* the error Initialize returns when the registrations in `failing` failed
Initialize(failing) == Nil

\* db.Use(plugin): the handle with the plugin attached, and Use's error
UsePlugin(handle, plugin, failing) ==
    [handle EXCEPT !.plugin = plugin, !.failed = failing,
                   !.useErr = Initialize(failing)]

NoDB == [open |-> FALSE, EnableTrace |-> FALSE, plugin |-> None, failed |-> {},
         useErr |-> Nil]

\* New / NewPostgreSQL -> newDB / newPostgreSQLDB: the plugin is attached only
\* when opts.EnableTrace is set
newDB(EnableTrace, failing) ==
    /\ ~db.open
    /\ LET opened == [NoDB EXCEPT !.open = TRUE, !.EnableTrace = EnableTrace]
       IN  db' = IF EnableTrace
                 THEN UsePlugin(opened, NewGormTracePlugin(TRUE), failing)
                 ELSE opened
    /\ UNCHANGED <<rdb, metricsOn, now, op, settings, spans, logs, metricObs,
                   render, classify, convert>>

\* a caller attaching the exported plugin itself: db.Use(NewGormTracePlugin(e))
Use(enableTrace, failing) ==
    /\ db.open
    /\ db.plugin = None
    /\ db' = UsePlugin(db, NewGormTracePlugin(enableTrace), failing)
    /\ UNCHANGED <<rdb, metricsOn, now, op, settings, spans, logs, metricObs,
                   render, classify, convert>>

\* gorm compiles a verb's callback chain on every Register; a failed compile
\* leaves the chain of that verb without callbacks, so the two hooks of a verb
\* run as a pair or not at all
HooksRun(verb) ==
    /\ db.plugin # None
    /\ \A ph \in Phases : <<verb, ph>> \notin db.failed

(***************************************************************************)
(* NewRedis / addTraceHook.                                                *)
(***************************************************************************)
newTraceRedisHook(enableTrace) == Some([enableTrace |-> enableTrace])

NoRedis == [open |-> FALSE, EnableTrace |-> FALSE, hook |-> None]

NewRedis(EnableTrace) ==
    /\ ~rdb.open
    /\ rdb' = [open |-> TRUE, EnableTrace |-> EnableTrace,
               hook |-> IF EnableTrace THEN newTraceRedisHook(EnableTrace)
                        ELSE None]
    /\ UNCHANGED <<db, metricsOn, now, op, settings, spans, logs, metricObs,
                   render, classify, convert>>

addTraceHook(enableTrace) ==
    /\ rdb.open
    /\ rdb.hook = None
    /\ rdb' = [rdb EXCEPT !.hook = newTraceRedisHook(enableTrace)]
    /\ UNCHANGED <<db, metricsOn, now, op, settings, spans, logs, metricObs,
                   render, classify, convert>>

(***************************************************************************)
(* The environment: the metrics switch and the clock.                      *)
(***************************************************************************)
\* metrics.IsEnabled(), the gate in front of every metric emission
IsEnabledAlways == TRUE

IsEnabled == metricsOn

SetMetrics(b) ==
    /\ metricsOn # b
    /\ metricsOn' = b
    /\ UNCHANGED <<db, rdb, now, op, settings, spans, logs, metricObs,
                   render, classify, convert>>

Tick ==
    /\ now < MaxTime
    /\ now' = now + 1
    /\ UNCHANGED <<db, rdb, metricsOn, op, settings, spans, logs, metricObs,
                   render, classify, convert>>

(***************************************************************************)
(* Operations.  Each operation o of Ops is one call on a handle: a         *)
(* relational operation (its *gorm.DB instance with its own Statement), a  *)
(* single cache command or a cache pipeline.                               *)
(***************************************************************************)
Ops == 1..MaxOps

NoCmd == [name |-> "", text |-> ""]

IdleOp ==
    [kind |-> "none", pc |-> "idle", hooked |-> FALSE,
     stmt |-> NilStatement,      \* db.Statement
     ctx0 |-> NilContext,        \* db.Statement.Context as before found it
     execCtx |-> NilContext,     \* db.Statement.Context as the driver ran under
     Error |-> Nil,              \* db.Error
     cmd |-> NoCmd, ncmds |-> 0, \* cmd / len(cmds) of the cache wrappers
     ctx |-> NilContext,         \* ctx of the cache wrappers
     start |-> None,             \* local start of the cache wrappers
     span |-> None,              \* local span of the cache wrappers
     err |-> Nil,                \* local err := next(ctx, cmd)
     nextCalls |-> 0,            \* how often the wrapper invoked next
     ret |-> "pending",          \* what the wrapper returned
     beforeAt |-> None,          \* when the operation's before-stage ran
     afterAt |-> None,           \* when the operation's after-stage ran
     afterMetrics |-> FALSE,     \* metrics.IsEnabled() as the after-stage saw it
     replays |-> 0]              \* how often after fired again on the instance

\* the key under which db.InstanceSet / db.InstanceGet keep an operation's
\* values: the address of that operation's own Statement
InstanceKeyShared(o) == 1

InstanceKey(o) == o

NoSettings == [start |-> None, span |-> None]

LogRecord(msg, operation, text, count, duration, status, ctx) ==
    [msg |-> msg, operation |-> operation, text |-> text, count |-> count,
     duration |-> duration, status |-> status, ctx |-> ctx]

Inc(metric, operation, status) ==
    [metric |-> metric, kind |-> "Inc", operation |-> operation,
     status |-> status, value |-> None]

Observe(metric, operation, seconds) ==
    [metric |-> metric, kind |-> "Observe", operation |-> operation,
     status |-> Nil, value |-> Some(seconds)]

\* GormTracePlugin.before for the operation o whose Statement is stmt0
before(o, verb, stmt0) ==
    /\ op[o].pc = "idle"
    /\ db.open
    /\ HooksRun(verb)
    /\ LET enableTrace == db.plugin[1].enableTrace
           key == InstanceKey(o)
           ctx == IF stmt0.Context # NilContext THEN stmt0.Context
                  ELSE Background
           operation == getOperationType(stmt0)
           spanName == "gorm." \o operation
       IN  /\ settings' =
                [settings EXCEPT ![key] =
                    [start |-> Some(now),
                     span |-> IF enableTrace THEN Some(o) ELSE @.span]]
           /\ spans' =
                IF enableTrace
                THEN [spans EXCEPT ![o] =
                        StartSpan(ctx, spanName, "sql", operation, None)]
                ELSE spans
           /\ op' = [op EXCEPT ![o] =
                [IdleOp EXCEPT
                    !.kind = "sql", !.pc = "exec", !.hooked = TRUE,
                    !.stmt = IF enableTrace
                             THEN [stmt0 EXCEPT !.Context = SpanContext(ctx, o)]
                             ELSE stmt0,
                    !.ctx0 = stmt0.Context,
                    !.beforeAt = Some(now)]]
    /\ UNCHANGED <<db, rdb, metricsOn, now, logs, metricObs, render, classify,
                   convert>>

\* the driver builds and runs the statement between the two hooks
Execute(o, outcome) ==
    /\ op[o].pc = "exec"
    /\ op[o].kind = "sql"
    /\ op' = [op EXCEPT ![o].stmt.SQL = outcome.SQL,
                        ![o].stmt.Vars = outcome.Vars,
                        ![o].execCtx = op[o].stmt.Context,
                        ![o].Error = outcome.err,
                        ![o].err = outcome.err,
                        ![o].pc = "after"]
    /\ UNCHANGED <<db, rdb, metricsOn, now, settings, spans, logs, metricObs,
                   render, classify, convert>>

\* the two early returns of after: no _start_time stored, or not a time.Time
noStartTimeIgnored(st) == FALSE

noStartTime(st) == st.start = None

\* ts of after: the stored time, the zero time when there is none
startTimeOf(st) == IF st.start = None THEN 0 ELSE st.start[1]

\* the body of GormTracePlugin.after run for operation o with Statement stmt
\* and db.Error dbError
afterHook(o, stmt, dbError) ==
    LET enableTrace == db.plugin[1].enableTrace
        st == settings[InstanceKey(o)]
    IN  IF noStartTime(st)
        THEN UNCHANGED <<spans, logs, metricObs>>
        ELSE LET duration == now - startTimeOf(st)
                 operation == getOperationType(stmt)
                 status == statusOf(dbError)
                 sql == getFullSQL(stmt)
             IN  /\ spans' =
                      IF enableTrace /\ st.span # None
                      THEN [spans EXCEPT ![st.span[1]] =
                              End(finishStatus(
                                    SetDurationAttr(
                                      SetOperationAttr(
                                        SetStatementAttr(@, sql), operation),
                                      Milliseconds(duration)),
                                    dbError))]
                      ELSE spans
                 /\ logs' = [logs EXCEPT ![o] = Append(@,
                      LogRecord("SQL cost time", operation, Some(sql), None,
                                Microseconds(duration) \div 1000, status,
                                stmt.Context))]
                 /\ metricObs' =
                      IF IsEnabled
                      THEN [metricObs EXCEPT ![o] = @ \o
                              <<Inc("DatabaseQueryTotal", operation, status),
                                Observe("DatabaseQueryDuration", operation,
                                        Seconds(duration))>>]
                      ELSE metricObs

\* GormTracePlugin.after, fired by the chain that fired before for o
after(o) ==
    /\ op[o].pc = "after"
    /\ op[o].kind = "sql"
    /\ op[o].hooked
    /\ afterHook(o, op[o].stmt, op[o].Error)
    /\ op' = [op EXCEPT ![o].pc = "done", ![o].afterAt = Some(now),
                        ![o].afterMetrics = metricsOn]
    /\ UNCHANGED <<db, rdb, metricsOn, now, settings, render, classify,
                   convert>>

\* GormTracePlugin.after fired for an operation on which before never ran
afterUnmatched(o, stmt, outcome) ==
    /\ op[o].pc = "idle"
    /\ db.open
    /\ db.plugin # None
    /\ LET done == [stmt EXCEPT !.SQL = outcome.SQL, !.Vars = outcome.Vars]
       IN  /\ afterHook(o, done, outcome.err)
           /\ op' = [op EXCEPT ![o] =
                [IdleOp EXCEPT !.kind = "stray", !.pc = "done",
                               !.stmt = done, !.Error = outcome.err,
                               !.err = outcome.err, !.afterAt = Some(now),
                               !.afterMetrics = metricsOn]]
    /\ UNCHANGED <<db, rdb, metricsOn, now, settings, render, classify,
                   convert>>

\* GormTracePlugin.after fired once more on the instance of a finished
\* operation, with no before in between: the Statement and its Settings are
\* the ones the finished operation left
afterAgain(o) ==
    /\ op[o].pc = "done"
    /\ op[o].kind = "sql"
    /\ op[o].hooked
    /\ op[o].replays < MaxReplays
    /\ afterHook(o, op[o].stmt, op[o].Error)
    /\ op' = [op EXCEPT ![o].replays = @ + 1]
    /\ UNCHANGED <<db, rdb, metricsOn, now, settings, render, classify,
                   convert>>

\* an operation of a verb whose chain holds no hook of the plugin
ExecuteUnhooked(o, verb, stmt, outcome) ==
    /\ op[o].pc = "idle"
    /\ db.open
    /\ ~HooksRun(verb)
    /\ op' = [op EXCEPT ![o] =
            [IdleOp EXCEPT !.kind = "sql", !.pc = "done",
                           !.stmt = [stmt EXCEPT !.SQL = outcome.SQL,
                                                 !.Vars = outcome.Vars],
                           !.Error = outcome.err, !.err = outcome.err]]
    /\ UNCHANGED <<db, rdb, metricsOn, now, settings, spans, logs, metricObs,
                   render, classify, convert>>

(***************************************************************************)
(* traceRedisHook.ProcessHook and ProcessPipelineHook.  Each wrapper is    *)
(* cut at its call of next: entry (span start, start time), next itself,   *)
(* and the rest of the wrapper up to its return and deferred span.End().   *)
(***************************************************************************)
\* the value the wrapper hands back for next's error
returnErrNil(err) == Nil

returnErr(err) == err

commandOperation(cmd) == IF cmd.name = "" THEN "unknown" ELSE cmd.name

ProcessHook_entry(o, cmd, ctx) ==
    /\ op[o].pc = "idle"
    /\ rdb.open
    /\ rdb.hook # None
    /\ LET enableTrace == rdb.hook[1].enableTrace
           operation == commandOperation(cmd)
       IN  /\ spans' =
                IF enableTrace
                THEN [spans EXCEPT ![o] =
                        StartSpan(ctx, "redis." \o operation, "redis",
                                  operation, None)]
                ELSE spans
           /\ op' = [op EXCEPT ![o] =
                [IdleOp EXCEPT
                    !.kind = "cmd", !.pc = "exec", !.hooked = TRUE,
                    !.cmd = cmd,
                    !.ctx = IF enableTrace THEN SpanContext(ctx, o) ELSE ctx,
                    !.span = IF enableTrace THEN Some(o) ELSE None,
                    !.start = Some(now),
                    !.beforeAt = Some(now)]]
    /\ UNCHANGED <<db, rdb, metricsOn, now, settings, logs, metricObs,
                   render, classify, convert>>

ProcessPipelineHook_entry(o, n, ctx) ==
    /\ op[o].pc = "idle"
    /\ rdb.open
    /\ rdb.hook # None
    /\ LET enableTrace == rdb.hook[1].enableTrace
       IN  /\ spans' =
                IF enableTrace
                THEN [spans EXCEPT ![o] =
                        StartSpan(ctx, "redis.pipeline", "redis", "pipeline",
                                  Some(n))]
                ELSE spans
           /\ op' = [op EXCEPT ![o] =
                [IdleOp EXCEPT
                    !.kind = "pipeline", !.pc = "exec", !.hooked = TRUE,
                    !.ncmds = n,
                    !.ctx = IF enableTrace THEN SpanContext(ctx, o) ELSE ctx,
                    !.span = IF enableTrace THEN Some(o) ELSE None,
                    !.start = Some(now),
                    !.beforeAt = Some(now)]]
    /\ UNCHANGED <<db, rdb, metricsOn, now, settings, logs, metricObs,
                   render, classify, convert>>

\* next(ctx, cmd) / next(ctx, cmds): the command or the batch itself
next(o, e) ==
    /\ op[o].pc = "exec"
    /\ op[o].kind \in {"cmd", "pipeline"}
    /\ op' = [op EXCEPT ![o].err = e, ![o].nextCalls = @ + 1,
                        ![o].pc = "after"]
    /\ UNCHANGED <<db, rdb, metricsOn, now, settings, spans, logs, metricObs,
                   render, classify, convert>>

ProcessHook_return(o) ==
    /\ op[o].pc = "after"
    /\ op[o].kind = "cmd"
    /\ LET enableTrace == rdb.hook[1].enableTrace
           duration == now - op[o].start[1]
           operation == commandOperation(op[o].cmd)
           status == statusOf(op[o].err)
       IN  /\ spans' =
                IF op[o].span # None
                THEN [spans EXCEPT ![op[o].span[1]] =
                        End(IF enableTrace
                            THEN finishStatus(
                                   SetDurationAttr(
                                     SetStatementAttr(@, op[o].cmd.text),
                                     Milliseconds(duration)),
                                   op[o].err)
                            ELSE @)]
                ELSE spans
           /\ logs' = [logs EXCEPT ![o] = Append(@,
                LogRecord("Redis command success", operation,
                          Some(op[o].cmd.text), None, duration, status,
                          op[o].ctx))]
           /\ metricObs' =
                IF IsEnabled
                THEN [metricObs EXCEPT ![o] = @ \o
                        <<Inc("RedisOperationTotal", operation, status),
                          Observe("RedisOperationDuration", operation,
                                  Seconds(duration))>>]
                ELSE metricObs
           /\ op' = [op EXCEPT ![o].ret = returnErr(op[o].err),
                               ![o].pc = "done", ![o].afterAt = Some(now),
                               ![o].afterMetrics = metricsOn]
    /\ UNCHANGED <<db, rdb, metricsOn, now, settings, render, classify,
                   convert>>

ProcessPipelineHook_return(o) ==
    /\ op[o].pc = "after"
    /\ op[o].kind = "pipeline"
    /\ LET enableTrace == rdb.hook[1].enableTrace
           duration == now - op[o].start[1]
           status == statusOf(op[o].err)
       IN  /\ spans' =
                IF op[o].span # None
                THEN [spans EXCEPT ![op[o].span[1]] =
                        End(IF enableTrace
                            THEN finishStatus(
                                   SetDurationAttr(@, Milliseconds(duration)),
                                   op[o].err)
                            ELSE @)]
                ELSE spans
           /\ logs' = [logs EXCEPT ![o] = Append(@,
                LogRecord("Redis pipeline success", Nil, None,
                          Some(op[o].ncmds), duration, status, op[o].ctx))]
           /\ metricObs' =
                IF IsEnabled
                THEN [metricObs EXCEPT ![o] = @ \o
                        <<Inc("RedisOperationTotal", "pipeline", status),
                          Observe("RedisOperationDuration", "pipeline",
                                  Seconds(duration))>>]
                ELSE metricObs
           /\ op' = [op EXCEPT ![o].ret = returnErr(op[o].err),
                               ![o].pc = "done", ![o].afterAt = Some(now),
                               ![o].afterMetrics = metricsOn]
    /\ UNCHANGED <<db, rdb, metricsOn, now, settings, render, classify,
                   convert>>

\* a command on a client that carries no hook: the client runs it directly
ProcessUnhooked(o, kind, cmd, n, e) ==
    /\ op[o].pc = "idle"
    /\ rdb.open
    /\ rdb.hook = None
    /\ op' = [op EXCEPT ![o] =
            [IdleOp EXCEPT !.kind = kind, !.pc = "done", !.cmd = cmd,
                           !.ncmds = n, !.err = e, !.nextCalls = 1,
                           !.ret = e]]
    /\ UNCHANGED <<db, rdb, metricsOn, now, settings, spans, logs, metricObs,
                   render, classify, convert>>

(***************************************************************************)
(* MySQLConfig, PostgreSQLConfig and RedisConfig: Validate and ToOptions.  *)
(* A config is one record for the three structs; kind tells which struct   *)
(* it is, isNil that the receiver is a nil pointer.  An error is None for  *)
(* nil, and otherwise the message with the value it was formatted with.    *)
(***************************************************************************)
Errorf(msg) == <<msg>>
ErrorfGot(msg, got) == <<msg, got>>

Config(kind) ==
    [isNil |-> FALSE, kind |-> kind, Enabled |-> TRUE, Host |-> "localhost",
     Port |-> 1, Database |-> "", Username |-> "", Password |-> "",
     MaxConnections |-> 1, Timeout |-> 0, SSLMode |-> "", DB |-> 0,
     PoolSize |-> 1, MinIdleConns |-> 0, DialTimeout |-> 0, ReadTimeout |-> 0,
     WriteTimeout |-> 0, IdleTimeout |-> 0, EnableTrace |-> FALSE]

\* a nil *MySQLConfig, *PostgreSQLConfig or *RedisConfig
NilConfig(kind) == [Config(kind) EXCEPT !.isNil = TRUE]

validSSLModes ==
    {"disable", "allow", "prefer", "require", "verify-ca", "verify-full"}

MySQLValidate(c) ==
    IF c.isNil THEN Errorf("mysql config cannot be nil")
    ELSE IF ~c.Enabled THEN None
    ELSE IF c.Database = "" THEN Errorf("mysql database is required")
    ELSE IF c.Username = "" THEN Errorf("mysql username is required")
    ELSE IF c.Password = "" THEN Errorf("mysql password is required")
    ELSE IF c.Port < 1 \/ c.Port > 65535
         THEN ErrorfGot("mysql port must be between 1 and 65535, got", c.Port)
    ELSE IF c.MaxConnections < 1
         THEN ErrorfGot("mysql max_connections must be greater than 0, got",
                        c.MaxConnections)
    ELSE None

PostgreSQLValidate(c) ==
    IF c.isNil THEN Errorf("postgresql config cannot be nil")
    ELSE IF ~c.Enabled THEN None
    ELSE IF c.Database = "" THEN Errorf("postgresql database is required")
    ELSE IF c.Username = "" THEN Errorf("postgresql username is required")
    ELSE IF c.Password = "" THEN Errorf("postgresql password is required")
    ELSE IF c.Port < 1 \/ c.Port > 65535
         THEN ErrorfGot("postgresql port must be between 1 and 65535, got",
                        c.Port)
    ELSE IF c.MaxConnections < 1
         THEN ErrorfGot("postgresql max_connections must be greater than 0, got",
                        c.MaxConnections)
    ELSE IF c.SSLMode # "" /\ c.SSLMode \notin validSSLModes
         THEN ErrorfGot("postgresql ssl_mode must be one of: disable, allow, prefer, require, verify-ca, verify-full, got",
                        c.SSLMode)
    ELSE None

RedisValidate(c) ==
    IF c.isNil THEN Errorf("redis config cannot be nil")
    ELSE IF ~c.Enabled THEN None
    ELSE IF c.Port < 1 \/ c.Port > 65535
         THEN ErrorfGot("redis port must be between 1 and 65535, got", c.Port)
    ELSE IF c.PoolSize < 1
         THEN ErrorfGot("redis pool_size must be greater than 0, got",
                        c.PoolSize)
    ELSE IF c.MinIdleConns < 0
         THEN ErrorfGot("redis min_idle_conns must be non-negative, got",
                        c.MinIdleConns)
    ELSE IF c.DB < 0 \/ c.DB > 15
         THEN ErrorfGot("redis db must be between 0 and 15, got", c.DB)
    ELSE None

\* the test ToOptions makes itself after Validate: if !c.Enabled
notEnabledIgnored(c) == FALSE

notEnabled(c) == ~c.Enabled

\* d, or the default when d is the zero duration (durations in seconds)
durationOr(d, default) == IF d = 0 THEN default ELSE d

\* fmt.Sprintf("%s:%d", host, port)
HostPort(host, port) == <<host, ":", port>>

\* what ToOptions returns: (nil, err) or (&Options{...}, nil)
Rejected(err) == [options |-> None, err |-> err]
Accepted(options) == [options |-> Some(options), err |-> None]

MySQLToOptions(c) ==
    LET err == MySQLValidate(c)
    IN  IF err # None THEN Rejected(err)
        ELSE IF notEnabled(c) THEN Rejected(Errorf("mysql is not enabled"))
        ELSE Accepted(
               [Host |-> HostPort(c.Host, c.Port), Username |-> c.Username,
                Password |-> c.Password, Database |-> c.Database,
                MaxIdleConnections |-> c.MaxConnections \div 10,
                MaxOpenConnections |-> c.MaxConnections,
                MaxConnectionLifeTime |-> durationOr(c.Timeout, 30),
                LogLevel |-> "Info", EnableTrace |-> c.EnableTrace])

PostgreSQLToOptions(c) ==
    LET err == PostgreSQLValidate(c)
    IN  IF err # None THEN Rejected(err)
        ELSE IF notEnabled(c)
             THEN Rejected(Errorf("postgresql is not enabled"))
        ELSE Accepted(
               [Host |-> c.Host, Port |-> c.Port, Username |-> c.Username,
                Password |-> c.Password, Database |-> c.Database,
                SSLMode |-> c.SSLMode,
                MaxIdleConnections |-> c.MaxConnections \div 10,
                MaxOpenConnections |-> c.MaxConnections,
                MaxConnectionLifeTime |-> durationOr(c.Timeout, 30),
                LogLevel |-> "Info", EnableTrace |-> c.EnableTrace])

RedisToOptions(c) ==
    LET err == RedisValidate(c)
    IN  IF err # None THEN Rejected(err)
        ELSE IF notEnabled(c) THEN Rejected(Errorf("redis is not enabled"))
        ELSE Accepted(
               [Addr |-> HostPort(c.Host, c.Port), Password |-> c.Password,
                DB |-> c.DB, PoolSize |-> c.PoolSize,
                MinIdleConns |-> c.MinIdleConns,
                DialTimeout |-> durationOr(c.DialTimeout, 5),
                ReadTimeout |-> durationOr(c.ReadTimeout, 3),
                WriteTimeout |-> durationOr(c.WriteTimeout, 3),
                IdleTimeout |-> durationOr(c.IdleTimeout, 300),
                EnableTrace |-> c.EnableTrace])

\* c.Validate() and c.ToOptions() by the struct c is
ValidateOf(c) ==
    CASE c.kind = "mysql"      -> MySQLValidate(c)
      [] c.kind = "postgresql" -> PostgreSQLValidate(c)
      [] OTHER                 -> RedisValidate(c)

ToOptionsOf(c) ==
    CASE c.kind = "mysql"      -> MySQLToOptions(c)
      [] c.kind = "postgresql" -> PostgreSQLToOptions(c)
      [] OTHER                 -> RedisToOptions(c)

IdleConvert ==
    [pc |-> "idle", config |-> NilConfig("mysql"), validateErr |-> None,
     options |-> None, err |-> None]

(***************************************************************************)
(* Inputs.                                                                 *)
(***************************************************************************)
Errors == {Nil, "E1"}

\* registrations whose Register call fails, as drawn for one attach
FailChoices == {{}, {<<"row", "after">>}}

CallerContexts == {NilContext, Context("caller")}

T_select == <<"s","e","l","e","c","t"," ","?">>

\* what the driver leaves in the Statement and in db.Error
Outcomes ==
    {[SQL |-> T_select, Vars |-> <<IntVal(7)>>, err |-> Nil],
     [SQL |-> T_select, Vars |-> <<IntVal(7)>>, err |-> "E1"]}

\* the Statement of an operation when its chain starts: no text yet
InitialStatements ==
    {Statement(<<>>, <<>>, FALSE, t, c) : t \in BOOLEAN, c \in CallerContexts}

PlainStatement == Statement(<<>>, <<>>, FALSE, TRUE, Context("caller"))

Cmds == {[name |-> "get", text |-> "get k"], [name |-> "", text |-> ""]}

BatchSizes == {0, 2}

IdleRender == [pc |-> "idle", template |-> <<>>, params |-> <<>>, out |-> <<>>]
IdleClassify == [pc |-> "idle", stmt |-> NilStatement, label |-> Nil]

TracerInit ==
    /\ db = NoDB
    /\ rdb = NoRedis
    /\ metricsOn = FALSE
    /\ now = 0
    /\ op = [o \in Ops |-> IdleOp]
    /\ settings = [k \in Ops |-> NoSettings]
    /\ spans = [i \in Ops |-> NoSpan]
    /\ logs = [o \in Ops |-> <<>>]
    /\ metricObs = [o \in Ops |-> <<>>]

Init ==
    /\ TracerInit
    /\ render = IdleRender
    /\ classify = IdleClassify
    /\ convert = IdleConvert

Next ==
    \/ \E e \in BOOLEAN, f \in FailChoices : newDB(e, f)
    \/ \E f \in {{}} : Use(FALSE, f)
    \/ \E e \in BOOLEAN : NewRedis(e)
    \/ addTraceHook(FALSE)
    \/ \E b \in BOOLEAN : SetMetrics(b)
    \/ Tick
    \/ \E o \in Ops, v \in Verbs, s \in InitialStatements : before(o, v, s)
    \/ \E o \in Ops, r \in Outcomes : Execute(o, r)
    \/ \E o \in Ops : after(o)
    \/ \E o \in Ops, r \in Outcomes : afterUnmatched(o, PlainStatement, r)
    \/ \E o \in Ops, v \in Verbs, r \in Outcomes :
            ExecuteUnhooked(o, v, PlainStatement, r)
    \/ \E o \in Ops, c \in Cmds : ProcessHook_entry(o, c, Context("caller"))
    \/ \E o \in Ops, n \in BatchSizes :
            ProcessPipelineHook_entry(o, n, Context("caller"))
    \/ \E o \in Ops, e \in Errors : next(o, e)
    \/ \E o \in Ops : ProcessHook_return(o)
    \/ \E o \in Ops : ProcessPipelineHook_return(o)
    \/ \E o \in Ops, c \in Cmds, e \in Errors :
            ProcessUnhooked(o, "cmd", c, 0, e)
    \/ \E o \in Ops, n \in BatchSizes, e \in Errors :
            ProcessUnhooked(o, "pipeline", NoCmd, n, e)

Spec == Init /\ [][Next]_vars

(***************************************************************************)
(* The relational tracer with its after-hook fired again on finished       *)
(* instances.                                                              *)
(***************************************************************************)
NextReplay ==
    \/ \E e \in BOOLEAN : newDB(e, {})
    \/ Use(FALSE, {})
    \/ \E b \in BOOLEAN : SetMetrics(b)
    \/ Tick
    \/ \E o \in Ops, v \in Verbs, s \in InitialStatements : before(o, v, s)
    \/ \E o \in Ops, r \in Outcomes : Execute(o, r)
    \/ \E o \in Ops : after(o)
    \/ \E o \in Ops : afterAgain(o)

SpecReplay == Init /\ [][NextReplay]_vars

(***************************************************************************)
(* getFullSQL on its own: every template and parameter list within the     *)
(* bounds is rendered once.                                                *)
(***************************************************************************)
SeqsUpTo(S, n) == UNION {[1..k -> S] : k \in 0..n}

TemplateChars == {"?", "a", " "}

ParamValues ==
    {StrVal(<<"b">>), StrVal(<<"?">>),
     StrVal(<<"o", "'", "b", "r", "i", "e", "n">>),
     BytesVal(<<"'">>), NilVal, IntVal(42), IntVal(-7), FloatVal(3, 5),
     TimeVal(2025, 1, 2, 3, 4, 5, 999)}

\* a two-placeholder statement as the driver builds it
ExampleTemplate ==
    <<"S","E","L","E","C","T"," ","*"," ","F","R","O","M"," ","t"," ",
      "W","H","E","R","E"," ","i","d","=","?"," ","A","N","D"," ","n",
      "a","m","e","=","?">>

ExampleParams == <<IntVal(42), StrVal(<<"o", "'", "b", "r", "i", "e", "n">>)>>

Templates == SeqsUpTo(TemplateChars, MaxTemplateLen) \cup {ExampleTemplate}

ParamLists == SeqsUpTo(ParamValues, MaxParams)

InitRender ==
    /\ TracerInit
    /\ classify = IdleClassify
    /\ convert = IdleConvert
    /\ render \in {[pc |-> "input", template |-> t, params |-> ps, out |-> <<>>] :
                       t \in Templates, ps \in ParamLists}

Render ==
    /\ render.pc = "input"
    /\ render' = [render EXCEPT
            !.out = getFullSQL(Statement(render.template, render.params,
                                         FALSE, FALSE, NilContext)),
            !.pc = "done"]
    /\ UNCHANGED <<tracerVars, classify, convert>>

SpecRender == InitRender /\ [][Render]_vars

(***************************************************************************)
(* getOperationType on its own.                                            *)
(***************************************************************************)
Leads == {<<>>, <<" ">>, <<"\t", "\n">>}
Tails == {<<>>, <<" ">>, <<" ", "x">>}
Words ==
    {<<>>,
     <<"s","e","l","e","c","t">>, <<"S","E","L","E","C","T">>,
     <<"S","e","L","e","C","t">>,
     <<"i","n","s","e","r","t">>, <<"I","N","S","E","R","T">>,
     <<"u","p","d","a","t","e">>, <<"U","p","d","a","t","e">>,
     <<"d","e","l","e","t","e">>, <<"D","E","L","E","T","E">>,
     <<"C","R","E","A","T","E">>, <<"s","e","l","e","c">>, <<"x">>}

ClassifyInputs ==
    {NilStatement} \cup
    {Statement(l \o w \o t, <<>>, m, tb, NilContext) :
        l \in Leads, w \in Words, t \in Tails, m \in BOOLEAN, tb \in BOOLEAN}

InitClassify ==
    /\ TracerInit
    /\ render = IdleRender
    /\ convert = IdleConvert
    /\ classify \in {[pc |-> "input", stmt |-> st, label |-> Nil] :
                        st \in ClassifyInputs}

Classify ==
    /\ classify.pc = "input"
    /\ classify' = [classify EXCEPT !.label = getOperationType(classify.stmt),
                                    !.pc = "done"]
    /\ UNCHANGED <<tracerVars, render, convert>>

SpecClassify == InitClassify /\ [][Classify]_vars

(***************************************************************************)
(* Validate and ToOptions on their own: a config is validated, then        *)
(* converted.                                                              *)
(***************************************************************************)
Ports == {0, 1, 3306, 65535, 65536}

MySQLConfigs ==
    {[Config("mysql") EXCEPT !.Enabled = e, !.Database = d, !.Username = u,
                             !.Password = pw, !.Port = pt,
                             !.MaxConnections = mc, !.Timeout = t,
                             !.EnableTrace = tr] :
        e \in BOOLEAN, d \in {"", "app"}, u \in {"", "root"},
        pw \in {"", "secret"}, pt \in Ports, mc \in {0, 1, 100},
        t \in {0, 10}, tr \in BOOLEAN}

PostgreSQLConfigs ==
    {[Config("postgresql") EXCEPT !.Enabled = e, !.Database = d,
                                  !.Username = u, !.Password = pw,
                                  !.Port = pt, !.MaxConnections = mc,
                                  !.SSLMode = m] :
        e \in BOOLEAN, d \in {"", "app"}, u \in {"", "root"},
        pw \in {"", "secret"}, pt \in {0, 5432, 65536}, mc \in {0, 100},
        m \in {"", "disable", "verify-full", "bogus"}}

RedisConfigs ==
    {[Config("redis") EXCEPT !.Enabled = e, !.Port = pt, !.PoolSize = ps,
                             !.MinIdleConns = mi, !.DB = n,
                             !.IdleTimeout = t] :
        e \in BOOLEAN, pt \in {0, 6379, 65536}, ps \in {0, 20},
        mi \in {-1, 0, 5}, n \in {-1, 0, 15, 16}, t \in {0, 60}}

Configs ==
    MySQLConfigs \cup PostgreSQLConfigs \cup RedisConfigs
    \cup {NilConfig(k) : k \in {"mysql", "postgresql", "redis"}}

InitConfig ==
    /\ TracerInit
    /\ render = IdleRender
    /\ classify = IdleClassify
    /\ convert \in {[IdleConvert EXCEPT !.pc = "input", !.config = c] :
                       c \in Configs}

Validate ==
    /\ convert.pc = "input"
    /\ convert' = [convert EXCEPT !.validateErr = ValidateOf(convert.config),
                                  !.pc = "validated"]
    /\ UNCHANGED <<tracerVars, render, classify>>

ToOptions ==
    /\ convert.pc = "validated"
    /\ LET r == ToOptionsOf(convert.config)
       IN  convert' = [convert EXCEPT !.options = r.options, !.err = r.err,
                                      !.pc = "done"]
    /\ UNCHANGED <<tracerVars, render, classify>>

NextConfig == Validate \/ ToOptions

SpecConfig == InitConfig /\ [][NextConfig]_vars

(***************************************************************************)
(* C4.  getFullSQL replaces the k-th ? of the template by the formatted    *)
(* k-th parameter, for every k up to min(#?, #params), and leaves every    *)
(* other character of the template as it is: surplus parameters are        *)
(* ignored, surplus ? stay, an empty parameter list gives the template.    *)
(***************************************************************************)
RECURSIVE PositionalRender(_, _, _)
PositionalRender(t, ps, k) ==
    IF t = <<>> THEN <<>>
    ELSE IF Head(t) = "?" /\ k <= Len(ps)
         THEN formatParam(ps[k]) \o PositionalRender(Tail(t), ps, k + 1)
         ELSE <<Head(t)>> \o PositionalRender(Tail(t), ps, k)

C4_RenderIsPositional ==
    render.pc = "done" =>
        render.out = PositionalRender(render.template, render.params, 1)

(***************************************************************************)
(* C5.  On non-empty text the label depends on the text alone: the trimmed *)
(* upper-cased text starting with SELECT/INSERT/UPDATE/DELETE gives        *)
(* select/insert/update/delete, every other non-empty text gives other,    *)
(* whether or not a table or model is bound.                               *)
(***************************************************************************)
LabelOfText(text) ==
    LET u == ToUpper(TrimSpace(text))
    IN  IF HasPrefix(u, S_SELECT) THEN "select"
        ELSE IF HasPrefix(u, S_INSERT) THEN "insert"
        ELSE IF HasPrefix(u, S_UPDATE) THEN "update"
        ELSE IF HasPrefix(u, S_DELETE) THEN "delete"
        ELSE "other"

C5_LabelFromTextAlone ==
    (classify.pc = "done" /\ ~classify.stmt.isNil /\ classify.stmt.SQL # <<>>)
        => classify.label = LabelOfText(classify.stmt.SQL)

(***************************************************************************)
(* Vocabulary of the claims about the tracers.                             *)
(***************************************************************************)
RECURSIVE SumTo(_, _)
SumTo(f, n) == IF n = 0 THEN 0 ELSE f[n] + SumTo(f, n - 1)

InFlight(o) == op[o].pc \in {"exec", "after"}
Done(o) == op[o].pc = "done"
NoneInFlight == \A o \in Ops : ~InFlight(o)

Relational(o) == op[o].kind = "sql" /\ op[o].hooked
Cache(o) == op[o].kind \in {"cmd", "pipeline"} /\ op[o].hooked

\* the enable-tracing flag of the tracer that serves operation o
TracingOn(o) ==
    \/ op[o].kind \in {"sql", "stray"} /\ db.plugin # None
         /\ db.plugin[1].enableTrace
    \/ op[o].kind \in {"cmd", "pipeline"} /\ rdb.hook # None
         /\ rdb.hook[1].enableTrace

TotalStarts == SumTo([i \in Ops |-> spans[i].starts], MaxOps)
TotalEnds == SumTo([i \in Ops |-> spans[i].ends], MaxOps)
TotalLogs == SumTo([o \in Ops |-> Len(logs[o])], MaxOps)
BeforeStages == Cardinality({o \in Ops : op[o].beforeAt # None})

(***************************************************************************)
(* C1.  Every span that is started is ended exactly once, by the           *)
(* after-hook or the wrapper's return of the operation that started it:    *)
(* never while the operation is in flight, never twice, and once no        *)
(* operation is in flight the number of End calls equals the number of     *)
(* Start calls.  A span of a failed operation has status Error and the     *)
(* error recorded when it ends.  With tracing disabled no span is started. *)
(***************************************************************************)
C1_SpansEndedExactlyOnce ==
    /\ \A o \in Ops :
        /\ spans[o].starts <= 1
        /\ spans[o].ends <= spans[o].starts
        /\ InFlight(o) => spans[o].ends = 0
        /\ Done(o) => spans[o].ends = spans[o].starts
        /\ (Relational(o) \/ Cache(o)) /\ TracingOn(o) /\ op[o].pc # "idle"
             => spans[o].starts = 1
        /\ ~TracingOn(o) => spans[o].starts = 0
        /\ (spans[o].ends = 1 /\ op[o].err # Nil) =>
             /\ spans[o].status = "Error"
             /\ spans[o].message = ErrorText(op[o].err)
             /\ spans[o].recorded = op[o].err
        /\ (spans[o].ends = 1 /\ op[o].err = Nil) => spans[o].status = "Ok"
    /\ NoneInFlight => TotalEnds = TotalStarts

C1_Witness ==
    \E a, b \in Ops :
        /\ Relational(a) /\ Done(a) /\ op[a].Error = "E1"
        /\ spans[a].starts = 1 /\ spans[a].ends = 1
        /\ Cache(b) /\ Done(b) /\ op[b].err = Nil
        /\ spans[b].starts = 1 /\ spans[b].ends = 1

(***************************************************************************)
(* C2.  The cache wrappers invoke next exactly once and return exactly the *)
(* error next returned; the relational hooks leave db.Error as the driver  *)
(* set it.                                                                 *)
(***************************************************************************)
C2_ErrorPassedThrough ==
    \A o \in Ops :
        /\ op[o].nextCalls <= 1
        /\ (Cache(o) /\ Done(o)) => (op[o].nextCalls = 1 /\ op[o].ret = op[o].err)
        /\ (Cache(o) /\ ~Done(o)) => op[o].ret = "pending"
        /\ (Relational(o) /\ op[o].pc = "exec") => op[o].Error = Nil
        /\ (Relational(o) /\ op[o].pc \in {"after", "done"})
             => op[o].Error = op[o].err

C2_Witness ==
    \E a, b, c \in Ops :
        /\ op[a].kind = "cmd" /\ Cache(a) /\ Done(a) /\ op[a].ret = "E1"
        /\ ~TracingOn(a) /\ op[a].afterMetrics
        /\ \/ op[b].kind = "pipeline" /\ Cache(b) /\ Done(b)
                /\ op[b].ret = Nil /\ ~op[b].afterMetrics
           \/ Relational(c) /\ Done(c) /\ op[c].Error = "E1"

(***************************************************************************)
(* C3.  Initialize returns an error naming the failing verb when a         *)
(* registration fails, and returns success only when all twelve            *)
(* registrations succeeded.                                                *)
(***************************************************************************)
C3_AttachReportsFailingVerb ==
    db.plugin # None =>
        /\ db.failed # {} => db.useErr \in {r[1] : r \in db.failed}
        /\ db.useErr = Nil => db.failed = {}

(***************************************************************************)
(* C6.  In the before-hook, where the statement text is empty, the span    *)
(* name and the db.operation attribute carry the classifier's label:       *)
(* query if a table or model is bound, and (as the claim has it) unknown   *)
(* otherwise.                                                              *)
(***************************************************************************)
BeforeLabelIs(unbound) ==
    \A o \in Ops :
        (Relational(o) /\ op[o].pc = "exec" /\ TracingOn(o)
            /\ op[o].stmt.SQL = <<>>) =>
            LET label == IF op[o].stmt.Model \/ op[o].stmt.Table
                         THEN "query" ELSE unbound
            IN  /\ spans[o].operation = label
                /\ spans[o].name = "gorm." \o label

C7_UntracedHandleStillLogs ==
    \A o \in Ops :
        (Done(o) /\ \/ op[o].kind = "sql" /\ ~db.EnableTrace
                    \/ op[o].kind \in {"cmd", "pipeline"} /\ ~rdb.EnableTrace)
        => /\ Len(logs[o]) = 1
           /\ op[o].afterMetrics => Len(metricObs[o]) = 2
           /\ spans[o].starts = 0

(***************************************************************************)
(* C8.  An after-hook that finds no start time for its operation changes   *)
(* nothing: no span is ended or written, no log record and no metric       *)
(* observation is emitted.                                                 *)
(***************************************************************************)
C8_AfterWithoutStartIsNoOp ==
    [][\A o \in Ops :
        (/\ settings[InstanceKey(o)].start = None
         /\ op'[o].pc = "done"
         /\ \/ op[o].pc = "idle" /\ op'[o].kind = "stray"
            \/ op[o].pc = "after" /\ Relational(o))
        => (spans' = spans /\ logs' = logs /\ metricObs' = metricObs)]_vars

C8_Witness ==
    \E o \in Ops :
        /\ op[o].kind = "stray" /\ Done(o)
        /\ TracingOn(o) /\ op[o].afterMetrics
        /\ op[o].Error = "E1"

(***************************************************************************)
(* C9.  Every operation that ran its before- and after-stage emitted       *)
(* exactly one log record, and one counter increment plus one histogram    *)
(* observation if metrics were enabled at its after-stage and none         *)
(* otherwise; nothing is emitted earlier; once no operation is in flight   *)
(* the number of log records equals the number of before-stages run.       *)
(***************************************************************************)
C9_OneEmissionPerOperation ==
    /\ \A o \in Ops :
        /\ ((Relational(o) \/ Cache(o)) /\ Done(o)) =>
             /\ Len(logs[o]) = 1
             /\ IF op[o].afterMetrics
                THEN /\ Len(metricObs[o]) = 2
                     /\ metricObs[o][1].kind = "Inc"
                     /\ metricObs[o][2].kind = "Observe"
                ELSE metricObs[o] = <<>>
        /\ ~((Relational(o) \/ Cache(o)) /\ Done(o)) =>
             (logs[o] = <<>> /\ metricObs[o] = <<>>)
    /\ TotalLogs <= BeforeStages
    /\ NoneInFlight => TotalLogs = BeforeStages

C9_Witness ==
    \E a, b \in Ops :
        /\ Relational(a) /\ Done(a) /\ op[a].Error = "E1"
        /\ Len(logs[a]) = 1 /\ Len(metricObs[a]) = 2
        /\ Cache(b) /\ Done(b) /\ op[b].err = Nil
        /\ Len(logs[b]) = 1 /\ metricObs[b] = <<>>

(***************************************************************************)
(* C10.  Whatever the interleaving of relational operations, the           *)
(* after-hook of an operation works on the start time and the span of that *)
(* same operation: the duration it logs, observes and sets on the span is  *)
(* the time from its own before-hook to its own after-hook, which is not   *)
(* negative, the span it ends is its own, and no other operation ends it.  *)
(***************************************************************************)
OwnDuration(o) == op[o].afterAt[1] - op[o].beforeAt[1]

C10_OwnStartTimeAndSpan ==
    \A o \in Ops : Relational(o) =>
        /\ (InFlight(o) /\ TracingOn(o)) =>
             (spans[o].ends = 0 /\ spans[o].durationMs = None)
        /\ Done(o) =>
             /\ OwnDuration(o) >= 0
             /\ Len(logs[o]) = 1
             /\ logs[o][1].duration = OwnDuration(o) * 1000
             /\ op[o].afterMetrics =>
                  (Len(metricObs[o]) = 2
                    /\ metricObs[o][2].value = Some(OwnDuration(o)))
             /\ TracingOn(o) =>
                  /\ spans[o].ends = 1
                  /\ spans[o].durationMs = Some(OwnDuration(o) * 1000)

C10_Witness ==
    \E a, b \in Ops :
        /\ a # b
        /\ Relational(a) /\ Done(a) /\ TracingOn(a)
        /\ op[a].beforeAt = Some(0) /\ op[a].afterAt = Some(1)
        /\ Relational(b) /\ InFlight(b) /\ op[b].beforeAt = Some(0)

(***************************************************************************)
(* C11.  In every after-stage emission of either tracer the three status   *)
(* reports agree with the operation's terminal error: the log record's     *)
(* status and the counter's status label are "error" and the span status   *)
(* is Error with the error's message exactly when the error is non-nil,    *)
(* and "success" and Ok otherwise.                                         *)
(***************************************************************************)
C11_StatusReportsAgree ==
    \A o \in Ops : ((Relational(o) \/ Cache(o)) /\ Done(o)) =>
        LET failed == op[o].err # Nil
            word == IF failed THEN "error" ELSE "success"
        IN  /\ Len(logs[o]) >= 1
            /\ \A i \in 1..Len(logs[o]) : logs[o][i].status = word
            /\ \A i \in 1..Len(metricObs[o]) :
                  metricObs[o][i].kind = "Inc" => metricObs[o][i].status = word
            /\ op[o].afterMetrics =>
                  \E i \in 1..Len(metricObs[o]) : metricObs[o][i].kind = "Inc"
            /\ TracingOn(o) =>
                  IF failed
                  THEN /\ spans[o].status = "Error"
                       /\ spans[o].message = ErrorText(op[o].err)
                  ELSE /\ spans[o].status = "Ok"
                       /\ spans[o].message = <<>>

C11_Witness ==
    \E a, b \in Ops :
        /\ Relational(a) /\ Done(a) /\ TracingOn(a) /\ op[a].afterMetrics
        /\ op[a].Error = "E1" /\ logs[a][1].status = "error"
        /\ metricObs[a][1].status = "error" /\ spans[a].status = "Error"
        /\ Cache(b) /\ Done(b) /\ TracingOn(b) /\ op[b].afterMetrics
        /\ op[b].err = Nil /\ logs[b][1].status = "success"
        /\ metricObs[b][1].status = "success" /\ spans[b].status = "Ok"

(***************************************************************************)
(* C12.  The batch wrapper labels its metrics and its log record with the  *)
(* operation "pipeline" for every batch, the empty batch included, and the *)
(* span attribute db.command_count is the number of commands it was given. *)
(***************************************************************************)
C12_PipelineLabelFixed ==
    \A o \in Ops : (op[o].kind = "pipeline" /\ Cache(o) /\ Done(o)) =>
        /\ Len(logs[o]) = 1
        /\ logs[o][1].operation = "pipeline"
        /\ \A i \in 1..Len(metricObs[o]) : metricObs[o][i].operation = "pipeline"
        /\ TracingOn(o) => spans[o].commandCount = Some(op[o].ncmds)

(***************************************************************************)
(* C13.  Value formatting of getFullSQL: a text or byte-sequence parameter *)
(* is rendered in single quotes with every single quote inside it doubled, *)
(* a null parameter as the unquoted literal NULL, a numeric parameter as   *)
(* its default string form without quotes; wherever the renderer consumes  *)
(* a parameter it inserts that form.  In particular                        *)
(* "SELECT * FROM t WHERE id=? AND name=?" with [42, "o'brien"] renders as *)
(* "SELECT * FROM t WHERE id=42 AND name='o''brien'", and "? ?" with       *)
(* [nil, 3.5] as "NULL 3.5".                                               *)
(***************************************************************************)
RECURSIVE ClaimedDoubled(_)
ClaimedDoubled(s) ==
    IF s = <<>> THEN <<>>
    ELSE IF Head(s) = "'" THEN <<"'", "'">> \o ClaimedDoubled(Tail(s))
    ELSE <<Head(s)>> \o ClaimedDoubled(Tail(s))

ClaimedKinds == {"string", "bytes", "nil", "int", "float"}

ClaimedForm(p) ==
    IF p.kind \in {"string", "bytes"}
    THEN <<"'">> \o ClaimedDoubled(p.v) \o <<"'">>
    ELSE IF p.kind = "nil" THEN <<"N", "U", "L", "L">>
    ELSE IF p.kind = "int" THEN Itoa(p.v)
    ELSE IF p.v[2] = 0 THEN Itoa(p.v[1])
    ELSE Itoa(p.v[1]) \o <<".">> \o Itoa(p.v[2])

\* the text with the claimed form of parameter k, k+1, ... put where the
\* renderer consumes them: at the first ? of the text so far
RECURSIVE RenderedAsClaimed(_, _, _)
RenderedAsClaimed(text, ps, k) ==
    IF k > Len(ps) \/ \A i \in 1..Len(text) : text[i] # "?" THEN text
    ELSE LET at == CHOOSE i \in 1..Len(text) :
                        text[i] = "?" /\ \A j \in 1..(i - 1) : text[j] # "?"
         IN  RenderedAsClaimed(SubSeq(text, 1, at - 1) \o ClaimedForm(ps[k])
                                   \o SubSeq(text, at + 1, Len(text)),
                               ps, k + 1)

ExampleRendered ==
    <<"S","E","L","E","C","T"," ","*"," ","F","R","O","M"," ","t"," ",
      "W","H","E","R","E"," ","i","d","=","4","2"," ","A","N","D"," ",
      "n","a","m","e","=","'","o","'","'","b","r","i","e","n","'">>

C13_ValuesFormattedAsClaimed ==
    render.pc = "done" =>
        /\ (\A i \in 1..Len(render.params) :
                render.params[i].kind \in ClaimedKinds)
             => render.out = RenderedAsClaimed(render.template, render.params, 1)
        /\ (render.template = ExampleTemplate /\ render.params = ExampleParams)
             => render.out = ExampleRendered
        /\ (render.template = <<"?", " ", "?">>
              /\ render.params = <<NilVal, FloatVal(3, 5)>>)
             => render.out = <<"N", "U", "L", "L", " ", "3", ".", "5">>

C13_Witness ==
    /\ render.pc = "done"
    /\ render.template = ExampleTemplate
    /\ render.params = ExampleParams
    /\ render.out = ExampleRendered

(***************************************************************************)
(* C14.  With tracing enabled the before-hook starts its span from the     *)
(* context the operation carried at hook entry (the background context if  *)
(* it carried none) and puts the context span start returned in its place: *)
(* the execution and the after-hook observe that context, and the          *)
(* after-hook's log record is emitted under it.  With tracing disabled the *)
(* before-hook leaves the operation's context as it found it.              *)
(***************************************************************************)
C14_ContextPropagated ==
    \A o \in Ops : Relational(o) =>
        LET carried == op[o].ctx0
            from == IF carried = NilContext THEN [base |-> "background",
                                                  spans |-> <<>>]
                    ELSE carried
            under == [base |-> from.base, spans |-> Append(from.spans, o)]
            seen == IF TracingOn(o) THEN under ELSE carried
        IN  /\ TracingOn(o) => spans[o].parent = <<from>>
            /\ op[o].stmt.Context = seen
            /\ op[o].pc \in {"after", "done"} => op[o].execCtx = seen
            /\ Done(o) => (Len(logs[o]) = 1 /\ logs[o][1].ctx = seen)

C14_Witness ==
    \E a, b \in Ops :
        /\ Relational(a) /\ Done(a) /\ TracingOn(a)
        /\ op[a].ctx0 = NilContext
        /\ logs[a][1].ctx = [base |-> "background", spans |-> <<a>>]
        /\ Relational(b) /\ op[b].pc = "after"
        /\ op[b].ctx0 = Context("caller")
        /\ op[b].execCtx = [base |-> "caller", spans |-> <<b>>]

(***************************************************************************)
(* C15.  Once the after-hook of a relational operation has exited, its     *)
(* scratch is gone: an after-hook fired again on the same instance with no *)
(* before-hook in between finds no start time and is a no-op, so the       *)
(* operation still has its one log record and its one pair of metric       *)
(* observations (if metrics were on), and its span was ended once.         *)
(***************************************************************************)
C15_ScratchDiscardedAfterExit ==
    \A o \in Ops : (Relational(o) /\ Done(o) /\ op[o].replays > 0) =>
        /\ Len(logs[o]) = 1
        /\ Len(metricObs[o]) = IF op[o].afterMetrics THEN 2 ELSE 0
        /\ spans[o].ends <= 1

(***************************************************************************)
(* C16.  For each of the three configs, ToOptions returns non-nil options  *)
(* and a nil error exactly when the config is non-nil, Enabled is true and *)
(* Validate returned nil, and nil options with a non-nil error in every    *)
(* other case.  Validate of a disabled config returns nil whatever its     *)
(* other fields hold, so a disabled config passes Validate and is          *)
(* rejected by ToOptions.                                                  *)
(***************************************************************************)
C16_ToOptionsIffEnabledAndValid ==
    LET c == convert.config
    IN  /\ (convert.pc \in {"validated", "done"} /\ ~c.isNil /\ ~c.Enabled)
             => convert.validateErr = <<>>
        /\ (convert.pc \in {"validated", "done"} /\ c.isNil)
             => convert.validateErr # <<>>
        /\ convert.pc = "done" =>
             IF ~c.isNil /\ c.Enabled /\ convert.validateErr = <<>>
             THEN convert.options # <<>> /\ convert.err = <<>>
             ELSE convert.options = <<>> /\ convert.err # <<>>

C16_Witness ==
    /\ convert.pc = "done"
    /\ convert.config.kind = "redis"
    /\ ~convert.config.isNil /\ ~convert.config.Enabled
    /\ convert.config.Port = 0 /\ convert.config.DB = 16
    /\ convert.validateErr = <<>>
    /\ convert.options = <<>>
    /\ convert.err = <<"redis is not enabled">>

====
